---- MODULE Spec2Model ----
(***************************************************************************)
(* osm-tag-csv-history: the streaming tag-diff loop of src/main.rs.        *)
(*                                                                         *)
(* Strings are sequences of characters (one-character TLA+ strings, with   *)
(* TAB, NL and BSL standing for tab, newline and backslash).  Rust's       *)
(* Option<T> is a sequence of length at most one: <<>> is None and <<v>>   *)
(* is Some(v).                                                             *)
(***************************************************************************)
EXTENDS Integers, Sequences, FiniteSets, TLC

VARIABLES
    cfg,      \* the run's configuration, fixed after argument parsing
    input,    \* the records objects_iter has not yet yielded
    last,     \* Option<StringOSMObj>: the retained previous record
    curr,     \* Option: the record of the current loop iteration
    out,      \* the sink: the data rows completed by write_record, in order
              \* (the header row written before the loop is left out)
    partial,  \* the fields written by write_field since the last write_record
    mark,     \* Len(out) when the current loop iteration began
    seen,     \* the records objects_iter has yielded so far, in order
    pc        \* position in main: start, loop, advance, done; or its end by
              \* panic, error (Non sorted input) or failed (changeset lookup)

vars == <<cfg, input, last, curr, out, partial, mark, seen, pc>>

----------------------------------------------------------------------------
(* Bounds of the model *)

MaxId == 2
MaxVersion == 2
MaxObjects == 2
MaxLen == 2

----------------------------------------------------------------------------
(* Options and strings *)

None == <<>>
Some(v) == <<v>>
IsSome(o) == Len(o) = 1
Unwrap(o) == o[1]

TAB == "TAB"
NL == "NL"
BSL == "BSL"

\* The code point order of the characters the model uses.
CharCode(c) ==
    CASE c = TAB -> 9
      [] c = NL -> 10
      [] c = "+" -> 43
      [] c = "-" -> 45
      [] c = "0" -> 48
      [] c = "1" -> 49
      [] c = "2" -> 50
      [] c = "3" -> 51
      [] c = "4" -> 52
      [] c = "5" -> 53
      [] c = "6" -> 54
      [] c = "7" -> 55
      [] c = "8" -> 56
      [] c = "9" -> 57
      [] c = BSL -> 92
      [] c = "a" -> 97
      [] c = "b" -> 98
      [] c = "d" -> 100
      [] c = "e" -> 101
      [] c = "i" -> 105
      [] c = "l" -> 108
      [] c = "n" -> 110
      [] c = "o" -> 111
      [] c = "r" -> 114
      [] c = "t" -> 116
      [] c = "w" -> 119
      [] c = "x" -> 120
      [] c = "y" -> 121

RECURSIVE StrLess(_, _)
\* Ord for str: lexicographic on the characters, a proper prefix first.
StrLess(s, t) ==
    IF t = <<>> THEN FALSE
    ELSE IF s = <<>> THEN TRUE
    ELSE IF CharCode(Head(s)) # CharCode(Head(t))
         THEN CharCode(Head(s)) < CharCode(Head(t))
    ELSE StrLess(Tail(s), Tail(t))

Digit(d) ==
    CASE d = 0 -> "0" [] d = 1 -> "1" [] d = 2 -> "2" [] d = 3 -> "3"
      [] d = 4 -> "4" [] d = 5 -> "5" [] d = 6 -> "6" [] d = 7 -> "7"
      [] d = 8 -> "8" [] d = 9 -> "9"

RECURSIVE to_string(_)
\* u32/i64 to_string(): the decimal digits, most significant first.
to_string(n) ==
    IF n < 10 THEN <<Digit(n)>> ELSE to_string(n \div 10) \o <<Digit(n % 10)>>

----------------------------------------------------------------------------
(* encode_field *)

EncodeChar(c) ==
    IF c = TAB THEN <<BSL, "t">>
    ELSE IF c = NL THEN <<BSL, "n">>
    ELSE <<c>>

RECURSIVE encode_field(_)
encode_field(field) ==
    IF field = <<>> THEN <<>>
    ELSE EncodeChar(Head(field)) \o encode_field(Tail(field))

----------------------------------------------------------------------------
(* Records and their order *)

ObjectTypes == {"Node", "Way", "Relation"}

\* derive(Ord) on OSMObjectType: Node < Way < Relation
TypeRank(t) == CASE t = "Node" -> 0 [] t = "Way" -> 1 [] t = "Relation" -> 2

CmpInt(a, b) == IF a < b THEN "Less" ELSE IF a = b THEN "Equal" ELSE "Greater"

\* Ordering::then
Then(o, p) == IF o = "Equal" THEN p ELSE o

sorted_objects(a, b) ==
    Then(CmpInt(TypeRank(a.object_type), TypeRank(b.object_type)),
         Then(CmpInt(a.id, b.id), CmpInt(a.version, b.version)))

tagged(o) == DOMAIN o.tags # {}

----------------------------------------------------------------------------
(* Configuration derived from the arguments *)

Col(name) == <<name>>
ChangesetTagCol(tag) == <<"ChangesetTag", tag>>

line_type(columns) ==
    IF \E n \in DOMAIN columns : columns[n] = Col("ValueCountDelta")
    THEN "SeparateLines"
    ELSE "OldNewValue"

\* -T: one flag per letter n, w, r found in the argument
only_include_types(object_types) ==
    <<"n" \in object_types, "w" \in object_types, "r" \in object_types>>

----------------------------------------------------------------------------
(* Record-level checks of one loop iteration *)

passes_uid_check(c, o) ==
    IF IsSome(o.uid) /\ IsSome(c.only_include_uids)
    THEN \E u \in Unwrap(c.only_include_uids) : u = Unwrap(o.uid)
    ELSE TRUE

passes_type_check(c, o) ==
    \/ o.object_type = "Node" /\ c.only_include_types[1]
    \/ o.object_type = "Way" /\ c.only_include_types[2]
    \/ o.object_type = "Relation" /\ c.only_include_types[3]

has_tags(l, o) ==
    IF l = None THEN tagged(o) ELSE tagged(Unwrap(l)) \/ tagged(o)

process_object(c, l, o) ==
    has_tags(l, o) /\ passes_uid_check(c, o) /\ passes_type_check(c, o)

\* the ensure! of the iteration: it is evaluated only for Some(last)
NonSortedInput(l, o) ==
    l # None /\ sorted_objects(Unwrap(l), o) # "Less"

SameObject(l, o) ==
    l # None /\ Unwrap(l).object_type = o.object_type /\ Unwrap(l).id = o.id

last_tags(l, o) == IF SameObject(l, o) THEN Some(Unwrap(l).tags) ELSE None

last_version(l, o) ==
    IF SameObject(l, o) THEN to_string(Unwrap(l).version) ELSE <<>>

----------------------------------------------------------------------------
(* The keys of a pair: collected, sorted, deduplicated *)

MinStr(S) == CHOOSE s \in S : \A t \in S \ {s} : StrLess(s, t)

RECURSIVE SortedSeq(_)
SortedSeq(S) ==
    IF S = {} THEN <<>> ELSE <<MinStr(S)>> \o SortedSeq(S \ {MinStr(S)})

\* the orders in which lt.keys() may yield the keys of the HashMap of the
\* previous record: any order; nothing is yielded for None
HashOrders(lt) ==
    IF IsSome(lt)
    THEN LET S == DOMAIN Unwrap(lt)
         IN  {f \in [1..Cardinality(S) -> S] :
                 \A i, j \in 1..Cardinality(S) : i # j => f[i] # f[j]}
    ELSE {<<>>}

\* the order that happens to be ascending
AscendingOrder(lt) ==
    IF IsSome(lt) THEN SortedSeq(DOMAIN Unwrap(lt)) ELSE <<>>

RECURSIVE insert(_, _)
insert(s, x) ==
    IF s = <<>> THEN <<x>>
    ELSE IF StrLess(Head(s), x) THEN <<Head(s)>> \o insert(Tail(s), x)
    ELSE <<x>> \o s

RECURSIVE sort(_)
\* Vec::sort
sort(s) == IF s = <<>> THEN <<>> ELSE insert(sort(Tail(s)), Head(s))

RECURSIVE dedup(_)
\* Vec::dedup: of each run of equal consecutive elements the first is kept
dedup(s) ==
    IF Len(s) < 2 THEN s
    ELSE IF s[1] = s[2] THEN dedup(Tail(s))
    ELSE <<Head(s)>> \o dedup(Tail(s))

\* the keys of the BTreeMap of curr, extended by those of last as yielded
collected(order, ct) == SortedSeq(DOMAIN ct) \o order

\* keys without keys.sort()
keys_Unsorted(order, ct) == dedup(collected(order, ct))

keys(order, ct) == dedup(sort(collected(order, ct)))

----------------------------------------------------------------------------
(* One key of a pair *)

last_value_existed(lt, key) == IsSome(lt) /\ key \in DOMAIN Unwrap(lt)
last_value(lt, key) ==
    IF last_value_existed(lt, key) THEN Unwrap(lt)[key] ELSE <<>>

curr_value_exists(ct, key) == key \in DOMAIN ct
curr_value(ct, key) == IF curr_value_exists(ct, key) THEN ct[key] ELSE <<>>

SkipKey(c, key) ==
    c.only_include_keys # {} /\ ~(\E k \in c.only_include_keys : key = k)

SameValue(lv, cv) == lv = cv

SkipTag(c, key, lv, cv) ==
    /\ c.only_include_tags # {}
    /\ ~(\E kv \in c.only_include_tags :
            kv[1] = key /\ (kv[2] = lv \/ kv[2] = cv))

\* whether the loop over the keys reaches the row loop for this key
WritesChange(c, lt, ct, key) ==
    /\ ~SkipKey(c, key)
    /\ ~SameValue(last_value(lt, key), curr_value(ct, key))
    /\ ~SkipTag(c, key, last_value(lt, key), curr_value(ct, key))

\* the values of i for which the row loop writes a row
Lines(lty, existed, exists) ==
    IF lty = "OldNewValue" THEN <<0>>
    ELSE (IF existed THEN <<0>> ELSE <<>>) \o (IF exists THEN <<1>> ELSE <<>>)

RECURSIVE Jobs(_, _, _, _)
\* the rows of one pair in the order they are written: (key, i)
Jobs(c, lt, ct, ks) ==
    IF ks = <<>> THEN <<>>
    ELSE LET key == Head(ks)
             is == IF WritesChange(c, lt, ct, key)
                   THEN Lines(line_type(c.columns),
                              last_value_existed(lt, key),
                              curr_value_exists(ct, key))
                   ELSE <<>>
         IN  [n \in 1..Len(is) |-> [key |-> key, i |-> is[n]]]
             \o Jobs(c, lt, ct, Tail(ks))

----------------------------------------------------------------------------
(* One field of one row.  A field is Ok(bytes), or the thread panics        *)
(* (unwrap on None, unreachable!), or main returns the Err of the changeset *)
(* lookup, before anything of the field is written.                         *)

Ok(bytes) == [ok |-> TRUE, bytes |-> bytes, how |-> "ok"]
Panic == [ok |-> FALSE, bytes |-> <<>>, how |-> "panic"]
Failed == [ok |-> FALSE, bytes |-> <<>>, how |-> "failed"]

TypeLetter(t) ==
    CASE t = "Node" -> <<"n">> [] t = "Way" -> <<"w">> [] t = "Relation" -> <<"r">>

TypeWord(t) ==
    CASE t = "Node" -> <<"n", "o", "d", "e">>
      [] t = "Way" -> <<"w", "a", "y">>
      [] t = "Relation" -> <<"r", "e", "l", "a", "t", "i", "o", "n">>

\* TimestampFormat::to_iso_string of a time in the first seconds of the epoch
to_iso_string(ts) ==
    <<"1", "9", "7", "0", "-", "0", "1", "-", "0", "1", "T", "0", "0", ":",
      "0", "0", ":">> \o (IF ts < 10 THEN <<"0">> ELSE <<>>) \o to_string(ts)
      \o <<"Z">>

\* ChangesetTagLookup::tags: None for an id the table does not hold
tags(lookup, cid) ==
    IF cid \in DOMAIN lookup THEN Some(lookup[cid]) ELSE None

\* ChangesetTagLookup::tags returns Err: the row of this id does not parse
tags_fails(c, cid) == cid \in c.changeset_corrupt

\* FirstTag taking the last pair with the key instead of the first
FirstTag_Last(pairs, changeset_tag) ==
    LET hits == {n \in DOMAIN pairs : pairs[n][1] = changeset_tag}
    IN  IF hits = {} THEN None
        ELSE Some(pairs[CHOOSE n \in hits : \A m \in hits : n >= m][2])

\* the value of the first pair whose key is changeset_tag, if any
FirstTag(pairs, changeset_tag) ==
    LET hits == {n \in DOMAIN pairs : pairs[n][1] = changeset_tag}
    IN  IF hits = {} THEN None
        ELSE Some(pairs[CHOOSE n \in hits : \A m \in hits : n <= m][2])

\* TagCountDelta with the arms of the appearing and the disappearing tag swapped
TagCountDelta_Swapped(existed, exists) ==
    CASE ~existed /\ ~exists -> Panic
      [] ~existed /\ exists -> Ok(<<"-", "1">>)
      [] existed /\ ~exists -> Ok(<<"+", "1">>)
      [] existed /\ exists -> Ok(<<"0">>)

TagCountDelta(existed, exists) ==
    CASE ~existed /\ ~exists -> Panic
      [] ~existed /\ exists -> Ok(<<"+", "1">>)
      [] existed /\ ~exists -> Ok(<<"-", "1">>)
      [] existed /\ exists -> Ok(<<"0">>)

ValueCountDelta(i) ==
    CASE i = 0 -> Ok(<<"-", "1">>)
      [] i = 1 -> Ok(<<"+", "1">>)
      [] OTHER -> Panic

ValueOfLine(i, lv, cv) ==
    CASE i = 0 -> Ok(encode_field(lv))
      [] i = 1 -> Ok(encode_field(cv))
      [] OTHER -> Panic

Field(column, c, l, o, key, i) ==
    LET lt == last_tags(l, o)
        name == column[1]
    IN  CASE name = "Key" -> Ok(encode_field(key))
          [] name = "NewValue" -> Ok(encode_field(curr_value(o.tags, key)))
          [] name = "OldValue" -> Ok(encode_field(last_value(lt, key)))
          [] name = "Value" ->
                ValueOfLine(i, last_value(lt, key), curr_value(o.tags, key))
          [] name = "Id" -> Ok(TypeLetter(o.object_type) \o to_string(o.id))
          [] name = "RawId" -> Ok(to_string(o.id))
          [] name = "NewVersion" -> Ok(to_string(o.version))
          [] name = "OldVersion" -> Ok(last_version(l, o))
          [] name = "IsoDatetime" ->
                IF IsSome(o.timestamp)
                THEN Ok(to_iso_string(Unwrap(o.timestamp))) ELSE Panic
          [] name = "EpochDatetime" ->
                IF IsSome(o.timestamp)
                THEN Ok(to_string(Unwrap(o.timestamp))) ELSE Panic
          [] name = "Username" ->
                IF IsSome(o.user) THEN Ok(encode_field(Unwrap(o.user))) ELSE Panic
          [] name = "Uid" ->
                IF IsSome(o.uid) THEN Ok(to_string(Unwrap(o.uid))) ELSE Panic
          [] name = "ChangesetId" ->
                IF IsSome(o.changeset_id)
                THEN Ok(to_string(Unwrap(o.changeset_id))) ELSE Panic
          [] name = "ObjectTypeShort" -> Ok(TypeLetter(o.object_type))
          [] name = "ObjectTypeLong" -> Ok(TypeWord(o.object_type))
          [] name = "ChangesetTag" ->
                IF ~IsSome(o.changeset_id) THEN Panic
                ELSE IF tags_fails(c, Unwrap(o.changeset_id)) THEN Failed
                ELSE LET found == tags(c.changeset_lookup, Unwrap(o.changeset_id))
                     IN  IF ~IsSome(found) THEN Ok(<<>>)
                         ELSE LET v == FirstTag(Unwrap(found), column[2])
                              IN  IF IsSome(v) THEN Ok(Unwrap(v)) ELSE Ok(<<>>)
          [] name = "TagCountDelta" ->
                TagCountDelta(last_value_existed(lt, key),
                              curr_value_exists(o.tags, key))
          [] name = "ValueCountDelta" -> ValueCountDelta(i)

\* the fields of the row (key, i), one per configured column, in column order
RowFields(c, l, o, job) ==
    [n \in 1..Len(c.columns) |-> Field(c.columns[n], c, l, o, job.key, job.i)]

RowOk(fields) == \A n \in DOMAIN fields : fields[n].ok
RowBytes(fields) == [n \in DOMAIN fields |-> fields[n].bytes]

\* the first column of the row whose field is not Ok
FirstBad(fields) ==
    CHOOSE n \in DOMAIN fields :
        ~fields[n].ok /\ \A m \in 1..(n - 1) : fields[m].ok

\* the fields write_field has taken when the row's first panic strikes
WrittenBeforePanic(fields) ==
    [n \in 1..(FirstBad(fields) - 1) |-> fields[n].bytes]

\* the rows of the pair (l, o), each as its fields' results
PairRowsIn(c, l, o, order) ==
    LET js == Jobs(c, last_tags(l, o), o.tags, keys(order, o.tags))
    IN  [n \in 1..Len(js) |-> RowFields(c, l, o, js[n])]

\* the rows of the pair when the HashMap yields its keys in ascending order
PairRows(c, l, o) == PairRowsIn(c, l, o, AscendingOrder(last_tags(l, o)))

\* how many rows are completed before the first panic (all, if none panics)
Completed(rows) ==
    IF \A n \in DOMAIN rows : RowOk(rows[n]) THEN Len(rows)
    ELSE (CHOOSE n \in DOMAIN rows :
              ~RowOk(rows[n]) /\ \A m \in 1..(n - 1) : RowOk(rows[m])) - 1

----------------------------------------------------------------------------
(* The steps of main *)

\* objects_iter.next().unwrap() before the loop
Start ==
    /\ pc = "start"
    /\ input # <<>>
    /\ curr' = Some(Head(input))
    /\ input' = Tail(input)
    /\ seen' = Append(seen, Head(input))
    /\ pc' = "loop"
    /\ UNCHANGED <<cfg, last, out, partial, mark>>

\* the same unwrap when the iterator yields nothing
StartEmpty ==
    /\ pc = "start"
    /\ input = <<>>
    /\ pc' = "panic"
    /\ UNCHANGED <<cfg, input, last, curr, out, partial, mark, seen>>

\* Process with the ensure! after the rows of the pair are written
Process_CheckAfterRows ==
    /\ pc = "loop"
    /\ \E order \in HashOrders(last_tags(last, Unwrap(curr))) :
       LET o == Unwrap(curr)
           rows == PairRowsIn(cfg, last, o, order)
       IN  IF ~process_object(cfg, last, o)
           THEN /\ pc' = "advance"
                /\ UNCHANGED <<out, partial>>
           ELSE /\ out' = out \o [n \in 1..Len(rows) |-> RowBytes(rows[n])]
                /\ pc' = IF NonSortedInput(last, o) THEN "error" ELSE "advance"
                /\ UNCHANGED partial
    /\ UNCHANGED <<cfg, input, last, curr, mark, seen>>

\* the loop body up to the end of `if process_object`
Process ==
    /\ pc = "loop"
    /\ \E order \in HashOrders(last_tags(last, Unwrap(curr))) :
       LET o == Unwrap(curr)
           rows == PairRowsIn(cfg, last, o, order)
           done == Completed(rows)
       IN  IF ~process_object(cfg, last, o)
           THEN /\ pc' = "advance"
                /\ UNCHANGED <<out, partial>>
           ELSE IF NonSortedInput(last, o)
           THEN /\ pc' = "error"
                /\ UNCHANGED <<out, partial>>
           ELSE /\ out' = out \o [n \in 1..done |-> RowBytes(rows[n])]
                /\ IF done = Len(rows)
                   THEN pc' = "advance" /\ UNCHANGED partial
                   ELSE /\ pc' = rows[done + 1][FirstBad(rows[done + 1])].how
                        /\ partial' = WrittenBeforePanic(rows[done + 1])
    /\ UNCHANGED <<cfg, input, last, curr, mark, seen>>

\* Advance that retains the record only when the body processed it
Advance_KeepLastOnSkip ==
    /\ pc = "advance"
    /\ input # <<>>
    /\ last' = IF process_object(cfg, last, Unwrap(curr)) THEN curr ELSE last
    /\ curr' = Some(Head(input))
    /\ input' = Tail(input)
    /\ seen' = Append(seen, Head(input))
    /\ mark' = Len(out)
    /\ pc' = "loop"
    /\ UNCHANGED <<cfg, out, partial>>

\* last = Some(curr); curr = the next record
Advance ==
    /\ pc = "advance"
    /\ input # <<>>
    /\ last' = curr
    /\ curr' = Some(Head(input))
    /\ input' = Tail(input)
    /\ seen' = Append(seen, Head(input))
    /\ mark' = Len(out)
    /\ pc' = "loop"
    /\ UNCHANGED <<cfg, out, partial>>

\* last = Some(curr); the iterator is exhausted: break, Ok(())
Finish ==
    /\ pc = "advance"
    /\ input = <<>>
    /\ last' = curr
    /\ curr' = None
    /\ pc' = "done"
    /\ UNCHANGED <<cfg, input, out, partial, mark, seen>>

Next == Start \/ StartEmpty \/ Process \/ Advance \/ Finish

----------------------------------------------------------------------------
(* Inputs: configurations and record streams *)

Ids == 1..MaxId
Versions == 1..MaxVersion

KeyA == <<"a">>
KeyB == <<"b">>
Empty == <<>>
ValX == <<"x">>
ValY == <<"y">>

TagMaps(K, V) == UNION {[D -> V] : D \in SUBSET K}

Object(t, id, v, tgs, uid) ==
    [object_type |-> t, id |-> id, version |-> v, tags |-> tgs, uid |-> uid,
     user |-> Some(<<"b", "o", "b">>), timestamp |-> Some(1),
     changeset_id |-> Some(1)]

Objects(types, ids, versions, tagmaps, uids) ==
    {Object(t, id, v, tgs, uid) :
        t \in types, id \in ids, v \in versions, tgs \in tagmaps, uid \in uids}

\* the streams of at most MaxObjects records over U
Streams(U) == UNION {[1..n -> U] : n \in 0..MaxObjects}

ColumnsOldNew ==
    <<Col("Key"), Col("NewValue"), Col("OldValue"), Col("Id"),
      Col("NewVersion"), Col("OldVersion"), Col("TagCountDelta")>>

ColumnsSeparate ==
    <<Col("Key"), Col("Value"), Col("ValueCountDelta"), Col("Id"),
      Col("NewVersion"), Col("OldVersion"), Col("TagCountDelta")>>

NoLookup == [cid \in {} |-> <<>>]

Config(ks, kvs, uids, types, columns) ==
    [only_include_keys |-> ks, only_include_tags |-> kvs,
     only_include_uids |-> uids, only_include_types |-> only_include_types(types),
     columns |-> columns, changeset_lookup |-> NoLookup,
     changeset_corrupt |-> {}]

AllTypes == {"n", "w", "r"}

InitWith(configs, U) ==
    /\ cfg \in configs
    /\ input \in Streams(U)
    /\ last = None
    /\ curr = None
    /\ out = <<>>
    /\ partial = <<>>
    /\ mark = 0
    /\ seen = <<>>
    /\ pc = "start"

\* ordering: every kind, id and version; tagged and untagged records; the
\* record-level filters
OrderObjects ==
    Objects(ObjectTypes, Ids, Versions, TagMaps({KeyA}, {ValX}), {Some(1)})

OrderConfigs ==
    {Config({}, {}, uids, types, ColumnsOldNew) :
        uids \in {None, Some({2})}, types \in {AllTypes, {"w"}}}

InitOrder == InitWith(OrderConfigs, OrderObjects)
SpecOrder == InitOrder /\ [][Next]_vars

\* versions of one node and the first version of the next node
DiffIdents == {<<"Node", 1, 1>>, <<"Node", 1, 2>>, <<"Node", 2, 1>>}

\* keys a and b, each absent or "", "x", "y"
DiffTagMaps == TagMaps({KeyA, KeyB}, {Empty, ValX, ValY})

DiffObjects ==
    {Object(n[1], n[2], n[3], tgs, Some(1)) : n \in DiffIdents, tgs \in DiffTagMaps}

DiffConfigs ==
    {Config(ks, {}, None, AllTypes, columns) :
        ks \in {{}, {KeyB}}, columns \in {ColumnsOldNew, ColumnsSeparate}}

InitDiff == InitWith(DiffConfigs, DiffObjects)
SpecDiff == InitDiff /\ [][Next]_vars

\* two versions of one node, by two users, with one key
FilterObjects ==
    {Object("Node", 1, v, tgs, uid) :
        v \in {1, 2}, tgs \in TagMaps({KeyA}, {Empty, ValX, ValY}),
        uid \in {Some(1), Some(2)}}

FilterConfigs ==
    {Config(ks, kvs, uids, types, ColumnsOldNew) :
        ks \in {{}, {KeyA}},
        kvs \in {{}, {<<KeyA, ValX>>}, {<<KeyA, Empty>>}},
        uids \in {None, Some({1})},
        types \in {AllTypes, {}}}

InitFilter == InitWith(FilterConfigs, FilterObjects)
SpecFilter == InitFilter /\ [][Next]_vars

\* the values of a tag: the strings of at most MaxLen characters over tab,
\* newline, backslash, t and n
Alphabet == {TAB, NL, BSL, "t", "n"}
Strings == UNION {[1..n -> Alphabet] : n \in 0..MaxLen}

EncodeObjects ==
    {Object("Node", 1, v, tgs, Some(1)) :
        v \in {1, 2}, tgs \in TagMaps({KeyA}, Strings)}

EncodeConfigs == {Config({}, {}, None, AllTypes, ColumnsOldNew)}

InitEncode == InitWith(EncodeConfigs, EncodeObjects)
SpecEncode == InitEncode /\ [][Next]_vars

\* a record with each of its optional fields given
ObjectWith(t, id, v, tgs, uid, user, ts, cs) ==
    [object_type |-> t, id |-> id, version |-> v, tags |-> tgs, uid |-> uid,
     user |-> user, timestamp |-> ts, changeset_id |-> cs]

TagC == <<"c">>
TagS == <<"s">>

\* a configuration with a changeset store: lookup holds the pairs of the ids
\* whose row parses, corrupt the ids whose row does not
ConfigWithLookup(ks, kvs, uids, types, columns, lookup, corrupt) ==
    [only_include_keys |-> ks, only_include_tags |-> kvs,
     only_include_uids |-> uids, only_include_types |-> only_include_types(types),
     columns |-> columns, changeset_lookup |-> lookup,
     changeset_corrupt |-> corrupt]

\* two versions of one node, each optional field present or missing
FieldsObjects ==
    {ObjectWith("Node", 1, v, tgs, uid, user, ts, cs) :
        v \in {1, 2}, tgs \in TagMaps({KeyA}, {ValX, ValY}),
        uid \in {None, Some(1), Some(2)}, user \in {None, Some(<<"b", "o", "b">>)},
        ts \in {None, Some(1)}, cs \in {None, Some(1)}}

FieldsColumns ==
    {<<Col("Key"), Col("NewValue")>>,
     <<Col("Key"), Col("NewValue"), Col("Uid")>>,
     <<Col("Uid"), Col("Key")>>,
     <<Col("Key"), Col("Username"), Col("IsoDatetime"), Col("ChangesetId")>>,
     <<Col("Key"), Col("EpochDatetime"), ChangesetTagCol(TagC)>>}

FieldsLookup == (1 :> <<(<<TagC, ValX>>)>>)

FieldsConfigs ==
    {ConfigWithLookup({}, {}, uids, AllTypes, columns, FieldsLookup, corrupt) :
        uids \in {None, Some({1})}, columns \in FieldsColumns,
        corrupt \in {{}, {1}}}

InitFields == InitWith(FieldsConfigs, FieldsObjects)
SpecFields == InitFields /\ [][Next]_vars

\* two versions of one node, written under changeset 1, 2 or 3
ChangesetObjects ==
    {ObjectWith("Node", 1, v, tgs, Some(1), Some(<<"b", "o", "b">>), Some(1), Some(cs)) :
        v \in {1, 2}, tgs \in TagMaps({KeyA}, {ValX, ValY}), cs \in {1, 2, 3}}

\* changeset 1 has tag c twice, changeset 2 has tag s only, 3 is unknown
PlainLookup ==
    (1 :> <<(<<TagC, ValX>>), (<<TagC, ValY>>)>>) @@ (2 :> <<(<<TagS, ValX>>)>>)

\* changeset tags whose values hold a tab or a newline
ControlLookup ==
    (1 :> <<(<<TagC, <<TAB>>>>)>>)
    @@ (2 :> <<(<<TagS, ValY>>), (<<TagC, <<"x", NL>>>>)>>)

ChangesetColumns ==
    {<<Col("Key"), ChangesetTagCol(TagC)>>,
     <<ChangesetTagCol(TagS), Col("Key"), Col("NewValue"), ChangesetTagCol(TagC)>>}

ChangesetConfigs ==
    {ConfigWithLookup({}, {}, None, AllTypes, columns, lookup, {}) :
        columns \in ChangesetColumns,
        lookup \in {NoLookup, PlainLookup, ControlLookup}}

InitChangeset == InitWith(ChangesetConfigs, ChangesetObjects)
SpecChangeset == InitChangeset /\ [][Next]_vars

KeyAB == <<"a", "b">>

\* two versions of one node with up to three keys, one a prefix of another
KeysTagMaps ==
    TagMaps({KeyA, KeyAB, KeyB}, {ValX}) \cup TagMaps({KeyA, KeyB}, {ValX, ValY})

KeysObjects ==
    {Object("Node", 1, v, tgs, Some(1)) : v \in {1, 2}, tgs \in KeysTagMaps}

KeysConfigs ==
    {Config({}, {}, None, AllTypes, columns) :
        columns \in {ColumnsOldNew, ColumnsSeparate}}

InitKeys == InitWith(KeysConfigs, KeysObjects)
SpecKeys == InitKeys /\ [][Next]_vars

----------------------------------------------------------------------------
(* Reading the state *)

\* the rows the current loop iteration has written
NewRows == SubSeq(out, mark + 1, Len(out))

\* the loop body has run to its end on the pair (last, curr)
BodyDone == pc = "advance"

\* the record before the n-th of the stream, as the loop holds it
Previous(s, n) == IF n = 1 THEN None ELSE Some(s[n - 1])

RECURSIVE RowsOfPairs(_, _, _)
\* the rows of the first n pairs (Previous(s, k), s[k]) of the stream s
RowsOfPairs(c, s, n) ==
    IF n = 0 THEN <<>>
    ELSE RowsOfPairs(c, s, n - 1) \o
         (IF process_object(c, Previous(s, n), s[n])
          THEN LET rows == PairRows(c, Previous(s, n), s[n])
               IN  [k \in 1..Len(rows) |-> RowBytes(rows[k])]
          ELSE <<>>)

\* (kind, id, version) of a comes strictly before that of b
StrictlyBefore(a, b) ==
    \/ TypeRank(a.object_type) < TypeRank(b.object_type)
    \/ /\ a.object_type = b.object_type
       /\ \/ a.id < b.id
          \/ a.id = b.id /\ a.version < b.version

----------------------------------------------------------------------------
(* Ordering *)

\* C1: every adjacent pair (previous, current) is checked, tagged or not,
\* filtered or not: the loop body never runs to its end on a pair whose
\* current record is not strictly after the previous one.
C1_EveryPairChecked ==
    (BodyDone /\ last # None) => StrictlyBefore(Unwrap(last), Unwrap(curr))

\* C2: when the run has aborted with "Non sorted input" at a pair, the sink
\* holds exactly the rows of the pairs before it, no field of a further row,
\* and the run takes no further step.
C2_AbortKeepsEarlierRows ==
    pc = "error" =>
        /\ out = RowsOfPairs(cfg, seen, Len(seen) - 1)
        /\ partial = <<>>
        /\ ~ENABLED Next

\* C2 witness: rows were written for an earlier pair, then the run aborted.
C2_Witness ==
    /\ pc = "error"
    /\ out # <<>>
    /\ ~StrictlyBefore(Unwrap(last), Unwrap(curr))

----------------------------------------------------------------------------
(* Reading rows *)

ColumnOf(name) == CHOOSE n \in DOMAIN cfg.columns : cfg.columns[n] = Col(name)

\* the rows among rs whose Key column is k (keys here hold no tab or newline)
RowsOfKey(rs, k) == SelectSeq(rs, LAMBDA r : r[ColumnOf("Key")] = k)

\* Option<value> of key k in a tag map
TagOf(tgs, k) == IF k \in DOMAIN tgs THEN Some(tgs[k]) ELSE None

\* the pair of this iteration is comparable: same kind and id
Comparable ==
    /\ last # None
    /\ Unwrap(last).object_type = Unwrap(curr).object_type
    /\ Unwrap(last).id = Unwrap(curr).id

\* the old tags of the pair: those of a comparable previous record, else none
OldTags == IF Comparable THEN Unwrap(last).tags ELSE [k \in {} |-> <<>>]
NewTags == Unwrap(curr).tags

PassesRecordFilters ==
    /\ passes_uid_check(cfg, Unwrap(curr))
    /\ passes_type_check(cfg, Unwrap(curr))

NoTagFilters == cfg.only_include_keys = {} /\ cfg.only_include_tags = {}

AnyKey == {KeyA, KeyB}

Plus1 == <<"+", "1">>
Minus1 == <<"-", "1">>
Zero == <<"0">>

----------------------------------------------------------------------------
(* Change detection *)

\* C3: for a comparable pair that passes the record-level filters, with no
\* key or key+value filter and the OldNewValue layout, key k gets exactly one
\* row if its old and new values differ as optional values, and none otherwise.
C3_OneRowPerChangedKey ==
    (/\ BodyDone
     /\ Comparable
     /\ PassesRecordFilters
     /\ NoTagFilters
     /\ line_type(cfg.columns) = "OldNewValue")
    => \A k \in AnyKey :
          Len(RowsOfKey(NewRows, k))
            = IF TagOf(OldTags, k) # TagOf(NewTags, k) THEN 1 ELSE 0

\* C4: without a comparable previous record (none, or one of another kind or
\* id) every tag of the current record is reported as a pure insertion: a row
\* with TagCountDelta "+1" and an empty OldVersion.
C4_BoundaryTagsAreInsertions ==
    (/\ BodyDone
     /\ ~Comparable
     /\ PassesRecordFilters
     /\ NoTagFilters)
    => \A k \in DOMAIN NewTags :
          \E n \in DOMAIN NewRows :
              /\ NewRows[n][ColumnOf("Key")] = k
              /\ NewRows[n][ColumnOf("TagCountDelta")] = Plus1
              /\ NewRows[n][ColumnOf("OldVersion")] = <<>>

\* The part of C4 the code keeps: the rows it does write for such a record
\* are pure insertions with an empty OldVersion.
C4_WrittenRowsAreInsertions ==
    (BodyDone /\ ~Comparable)
    => \A n \in DOMAIN NewRows :
          /\ NewRows[n][ColumnOf("Key")] \in DOMAIN NewTags
          /\ NewRows[n][ColumnOf("TagCountDelta")] = Plus1
          /\ NewRows[n][ColumnOf("OldVersion")] = <<>>

\* C5: when the stream yields no record, the run ends normally and no data
\* row is written.
C5_EmptyStreamIsNoOp ==
    (input = <<>> /\ seen = <<>> /\ pc # "start") => (pc = "done" /\ out = <<>>)

\* C6: in every row written, TagCountDelta is "+1" for a key absent before and
\* present now, "-1" for a key present before and absent now, "0" for a key
\* present on both sides; a key absent on both sides never reaches a row (the
\* unreachable!() arm is never taken).
C6_TagCountDelta ==
    /\ (pc = "panic" => seen = <<>>)
    /\ pc \in {"advance", "panic"} =>
          \A n \in DOMAIN NewRows :
              LET k == NewRows[n][ColumnOf("Key")]
                  before == k \in DOMAIN OldTags
                  now == k \in DOMAIN NewTags
              IN  /\ before \/ now
                  /\ NewRows[n][ColumnOf("TagCountDelta")]
                       = IF ~before THEN Plus1 ELSE IF ~now THEN Minus1 ELSE Zero

\* C6 witness: one pair with a value change on one key and an insertion of
\* another, both written.
C6_Witness ==
    /\ BodyDone
    /\ \E n, m \in DOMAIN NewRows :
          /\ NewRows[n][ColumnOf("TagCountDelta")] = Zero
          /\ NewRows[m][ColumnOf("TagCountDelta")] = Plus1

\* A second witness of C6: a tag that disappeared.
C6_WitnessRemoval ==
    /\ BodyDone
    /\ \E n \in DOMAIN NewRows : NewRows[n][ColumnOf("TagCountDelta")] = Minus1

----------------------------------------------------------------------------
(* Line layout *)

\* the value of key k in a tag map as the loop reads it: "" when absent
ValueOr(tgs, k) == IF k \in DOMAIN tgs THEN tgs[k] ELSE <<>>

\* ValueCountDelta and Value of each row of rs, in order
DeltaAndValue(rs) ==
    [n \in DOMAIN rs |->
        <<rs[n][ColumnOf("ValueCountDelta")], rs[n][ColumnOf("Value")]>>]

\* the removal row if the old value exists, then the addition row if the new
\* value exists
SeparateRows(old, new) ==
    (IF IsSome(old) THEN <<(<<Minus1, Unwrap(old)>>)>> ELSE <<>>)
    \o (IF IsSome(new) THEN <<(<<Plus1, Unwrap(new)>>)>> ELSE <<>>)

\* C7: under SeparateLines every changed tag yields a removal row ("-1", old
\* value) iff the old value existed, then an addition row ("+1", new value) iff
\* the new value exists: two rows for a value change, one for a pure insertion
\* or a pure deletion.
C7_SeparateLines ==
    (/\ BodyDone
     /\ PassesRecordFilters
     /\ NoTagFilters
     /\ line_type(cfg.columns) = "SeparateLines")
    => \A k \in AnyKey :
          TagOf(OldTags, k) # TagOf(NewTags, k) =>
              DeltaAndValue(RowsOfKey(NewRows, k))
                = SeparateRows(TagOf(OldTags, k), TagOf(NewTags, k))

\* The part of C7 the code keeps: the layout of the changes it detects, those
\* whose old and new value differ as strings with "" for an absent value.
C7_DetectedChangesLayout ==
    (/\ BodyDone
     /\ PassesRecordFilters
     /\ NoTagFilters
     /\ line_type(cfg.columns) = "SeparateLines")
    => \A k \in AnyKey :
          DeltaAndValue(RowsOfKey(NewRows, k))
            = IF ValueOr(OldTags, k) # ValueOr(NewTags, k)
              THEN SeparateRows(TagOf(OldTags, k), TagOf(NewTags, k))
              ELSE <<>>

----------------------------------------------------------------------------
(* Filters *)

\* the loop detects a change of key k in this pair and the key filter lets it
\* through
Detected(k) ==
    /\ ValueOr(OldTags, k) # ValueOr(NewTags, k)
    /\ (cfg.only_include_keys = {} \/ k \in cfg.only_include_keys)

\* some configured (key, value) has this key and the old or the new value; an
\* absent value is no value
TagListed(k) ==
    \E kv \in cfg.only_include_tags :
        /\ kv[1] = k
        /\ (Some(kv[2]) = TagOf(OldTags, k) \/ Some(kv[2]) = TagOf(NewTags, k))

\* C8: with a non-empty (key, value) allow-list a detected change is written
\* iff some configured pair has its key and its old or its new value; an
\* absent old or new value matches no configured value, not even "".
C8_KeyValueFilter ==
    (/\ BodyDone
     /\ PassesRecordFilters
     /\ cfg.only_include_tags # {})
    => \A k \in AnyKey :
          Detected(k) => (RowsOfKey(NewRows, k) # <<>> <=> TagListed(k))

\* every allow-set of the configuration is empty or absent
NoRestriction ==
    /\ cfg.only_include_keys = {}
    /\ cfg.only_include_tags = {}
    /\ cfg.only_include_uids = None
    /\ cfg.only_include_types \in {only_include_types({}), only_include_types(AllTypes)}

\* C9: an empty or absent allow-set restricts nothing: with every allow-set
\* empty or absent, also an object-kind set that selects no kind, every change
\* of every pair is written.
C9_EmptyAllowSetPassesAll ==
    (BodyDone /\ NoRestriction)
    => \A k \in AnyKey :
          ValueOr(OldTags, k) # ValueOr(NewTags, k) => RowsOfKey(NewRows, k) # <<>>

\* The part of C9 the code keeps: the uid, key and key+value allow-sets.
C9_OtherAllowSetsPassAll ==
    (BodyDone /\ NoRestriction /\ cfg.only_include_types = only_include_types(AllTypes))
    => \A k \in AnyKey :
          ValueOr(OldTags, k) # ValueOr(NewTags, k) => RowsOfKey(NewRows, k) # <<>>

----------------------------------------------------------------------------
(* Field encoding *)

\* C10: encode_field is injective on the strings over tab, newline,
\* backslash, t and n: the NewValue field of a written row is the encoding of
\* the tag's value and of no other string, so the value can be decoded back.
C10_EncodeInjective ==
    (BodyDone /\ KeyA \in DOMAIN NewTags)
    => \A n \in DOMAIN NewRows :
          \A str \in Strings :
              str # NewTags[KeyA] =>
                  encode_field(str) # NewRows[n][ColumnOf("NewValue")]

\* The part of C10 the code keeps: strings without a backslash.
C10_InjectiveWithoutBackslash ==
    (BodyDone /\ KeyA \in DOMAIN NewTags)
    => \A n \in DOMAIN NewRows :
          \A str \in Strings :
              (/\ str # NewTags[KeyA]
               /\ \A m \in DOMAIN str : str[m] # BSL
               /\ \A m \in DOMAIN NewTags[KeyA] : NewTags[KeyA][m] # BSL)
              => encode_field(str) # NewRows[n][ColumnOf("NewValue")]

----------------------------------------------------------------------------
(* Rows as the sink sees them *)

\* C11: every row in the sink is complete, one field per configured column,
\* and the sink never holds fields of an unfinished row, also when the run has
\* ended by a panic or by the error of the changeset lookup.
C11_RowsAreAtomic ==
    /\ \A n \in DOMAIN out : Len(out[n]) = Len(cfg.columns)
    /\ partial = <<>>

\* The part of C11 the code keeps: the rows ended by write_record are complete.
C11_CompletedRowsAreWhole ==
    \A n \in DOMAIN out : Len(out[n]) = Len(cfg.columns)

----------------------------------------------------------------------------
(* Changeset tags *)

\* the columns of the configuration that are ChangesetTag(name)
ChangesetTagColumns ==
    {n \in DOMAIN cfg.columns : cfg.columns[n][1] = "ChangesetTag"}

RECURSIVE ValueOfFirst(_, _)
\* the value of the first pair (k, v) of ps with k = name; "" if there is none
ValueOfFirst(ps, name) ==
    IF ps = <<>> THEN <<>>
    ELSE IF Head(ps)[1] = name THEN Head(ps)[2]
    ELSE ValueOfFirst(Tail(ps), name)

\* the pairs the store holds for the changeset of the current record
StoredPairs ==
    LET cid == Unwrap(Unwrap(curr).changeset_id)
    IN  IF cid \in DOMAIN cfg.changeset_lookup
        THEN cfg.changeset_lookup[cid] ELSE <<>>

\* C12: in a written row a ChangesetTag(name) column is "" when the store does
\* not hold the record's changeset id or the changeset has no tag called name,
\* and else the value of the first pair with that key; the run goes on.
C12_ChangesetTagColumn ==
    /\ pc = "failed" => cfg.changeset_corrupt # {}
    /\ pc = "panic" => seen = <<>>
    /\ BodyDone =>
          \A r \in DOMAIN NewRows :
              \A n \in ChangesetTagColumns :
                  NewRows[r][n] = ValueOfFirst(StoredPairs, cfg.columns[n][2])

\* C12 witness: a row was written for a changeset that has the tag twice, and
\* its column holds a value.
C12_Witness ==
    /\ BodyDone
    /\ NewRows # <<>>
    /\ \E n \in ChangesetTagColumns :
          /\ NewRows[1][n] # <<>>
          /\ Cardinality({m \in DOMAIN StoredPairs :
                            StoredPairs[m][1] = cfg.columns[n][2]}) > 1

\* A second witness of C12: a row was written for a changeset the store does
\* not hold although it holds others.
C12_WitnessUnknown ==
    /\ BodyDone
    /\ NewRows # <<>>
    /\ ChangesetTagColumns # {}
    /\ DOMAIN cfg.changeset_lookup # {}
    /\ Unwrap(Unwrap(curr).changeset_id) \notin DOMAIN cfg.changeset_lookup

----------------------------------------------------------------------------
(* Records that lack a field *)

\* the record of this iteration has no timestamp, user name, uid or changeset
LacksField(o) ==
    \/ ~IsSome(o.timestamp)
    \/ ~IsSome(o.user)
    \/ ~IsSome(o.uid)
    \/ ~IsSome(o.changeset_id)

\* the loop body has run on the current record: to its end or to an abort
BodyRan == pc \in {"advance", "panic", "failed", "error"}

\* the current record is tagged and the body went into its diff
ProcessedTagged ==
    /\ BodyRan
    /\ curr # None
    /\ tagged(Unwrap(curr))
    /\ process_object(cfg, last, Unwrap(curr))

\* C13: a processed tagged record that lacks a timestamp, a user name, a uid
\* or a changeset id aborts the run and no row is written for it, whatever
\* the columns and the filters are.
C13_MissingFieldIsFatal ==
    (ProcessedTagged /\ LacksField(Unwrap(curr))) =>
        /\ pc \in {"panic", "error"}
        /\ NewRows = <<>>

\* the fields the configured columns take from the current record
FieldsRead ==
    {cfg.columns[n][1] : n \in DOMAIN cfg.columns}

LacksReadField(o) ==
    \/ ~IsSome(o.timestamp) /\ FieldsRead \cap {"EpochDatetime", "IsoDatetime"} # {}
    \/ ~IsSome(o.user) /\ "Username" \in FieldsRead
    \/ ~IsSome(o.uid) /\ "Uid" \in FieldsRead
    \/ ~IsSome(o.changeset_id) /\ FieldsRead \cap {"ChangesetId", "ChangesetTag"} # {}

\* What holds of C13: no row is completed for a record that lacks a field
\* one of the configured columns reads, and the body does not run to its end
\* on such a record when it has a change to write.
C13_ReadFieldIsRequired ==
    (ProcessedTagged /\ LacksReadField(Unwrap(curr))) =>
        /\ NewRows = <<>>
        /\ pc = "advance" => PairRows(cfg, last, Unwrap(curr)) = <<>>

----------------------------------------------------------------------------
(* Record-level filters *)

\* the kind of o is in the object-kind allow-set
KindAllowed(o) ==
    cfg.only_include_types[CASE o.object_type = "Node" -> 1
                             [] o.object_type = "Way" -> 2
                             [] o.object_type = "Relation" -> 3]

\* when a uid allow-set is configured, the uid of o is a member of it
UidAllowed(o) ==
    IsSome(cfg.only_include_uids) =>
        IsSome(o.uid) /\ Unwrap(o.uid) \in Unwrap(cfg.only_include_uids)

\* C14: every written row belongs to a current record whose kind is in the
\* object-kind allow-set and, when a uid allow-set is configured, whose uid
\* is a member of it; a record rejected by either filter writes no row.
C14_RecordFiltersAreConjunctive ==
    (BodyRan /\ curr # None /\ (NewRows # <<>> \/ partial # <<>>)) =>
        KindAllowed(Unwrap(curr)) /\ UidAllowed(Unwrap(curr))

\* What holds of C14: the rows belong to records of an allowed kind whose
\* uid, when the record carries one, is in the configured allow-set.
C14_KnownUidsAreFiltered ==
    (BodyRan /\ curr # None /\ (NewRows # <<>> \/ partial # <<>>)) =>
        /\ KindAllowed(Unwrap(curr))
        /\ IsSome(Unwrap(curr).uid) => UidAllowed(Unwrap(curr))

----------------------------------------------------------------------------
(* The retained record *)

\* the record read immediately before the current one, if any
Before == Previous(seen, Len(seen))

\* the record before the current one is an earlier version of the same object
BeforeIsSameObject ==
    /\ Before # None
    /\ Unwrap(Before).object_type = seen[Len(seen)].object_type
    /\ Unwrap(Before).id = seen[Len(seen)].id

\* the record before the current one was skipped by the loop body
BeforeWasSkipped ==
    /\ Len(seen) > 1
    /\ ~process_object(cfg, Previous(seen, Len(seen) - 1), seen[Len(seen) - 1])

----------------------------------------------------------------------------
(* The order of the rows of a pair *)

\* the Key column of the n-th row written in this iteration
KeyOfRow(n) == NewRows[n][ColumnOf("Key")]

\* the rows the pair of this iteration gives when the tag map of the previous
\* record yields its keys in the given order
RowsUnder(order) ==
    IF process_object(cfg, last, Unwrap(curr))
    THEN LET rows == PairRowsIn(cfg, last, Unwrap(curr), order)
         IN  [n \in DOMAIN rows |-> RowBytes(rows[n])]
    ELSE <<>>

\* the written rows are those of every iteration order of the previous map
OrderIndependent ==
    \A order \in HashOrders(last_tags(last, Unwrap(curr))) :
        NewRows = RowsUnder(order)

\* the keys visited are those of the union of both tag maps, each once,
\* ascending, under every iteration order of the previous map
UnionVisitedOnce ==
    \A order \in HashOrders(last_tags(last, Unwrap(curr))) :
        LET ks == keys(order, NewTags)
        IN  /\ {ks[n] : n \in DOMAIN ks} = DOMAIN OldTags \cup DOMAIN NewTags
            /\ \A n \in 1..(Len(ks) - 1) : StrLess(ks[n], ks[n + 1])

\* C16 as stated: the rows of a pair are strictly ascending by key, every key
\* of the union is visited once, and the rows do not depend on the iteration
\* order of the previous record's tag map.
C16_RowsStrictlyAscending ==
    BodyDone =>
        /\ \A n \in 1..(Len(NewRows) - 1) : StrLess(KeyOfRow(n), KeyOfRow(n + 1))
        /\ UnionVisitedOnce
        /\ OrderIndependent

\* C16, amended: the keys of the union are visited once each in strictly
\* ascending order and the rows do not depend on the iteration order of the
\* previous map; the rows are strictly ascending by key in the old/new
\* layout, and in the separate-lines layout two adjacent rows may share their
\* key: the removal of the old value followed by the addition of the new one.
C16_RowsAscendByVisitedKey ==
    BodyDone =>
        /\ \A n \in 1..(Len(NewRows) - 1) :
              \/ StrLess(KeyOfRow(n), KeyOfRow(n + 1))
              \/ /\ line_type(cfg.columns) = "SeparateLines"
                 /\ KeyOfRow(n) = KeyOfRow(n + 1)
                 /\ NewRows[n][ColumnOf("ValueCountDelta")] = Minus1
                 /\ NewRows[n + 1][ColumnOf("ValueCountDelta")] = Plus1
        /\ UnionVisitedOnce
        /\ OrderIndependent

\* C16 witness: the previous map has several iteration orders, shares a key
\* with the current map, and rows of different keys were written.
C16_Witness ==
    /\ BodyDone
    /\ Comparable
    /\ Cardinality(DOMAIN OldTags) > 1
    /\ DOMAIN OldTags \cap DOMAIN NewTags # {}
    /\ \E n \in 1..(Len(NewRows) - 1) : KeyOfRow(n) # KeyOfRow(n + 1)

----------------------------------------------------------------------------
(* Tabs and newlines in the fields *)

\* the field holds no literal tab and no literal newline
Clean(field) == \A n \in DOMAIN field : field[n] # TAB /\ field[n] # NL

\* C17: no field handed to the sink holds a literal tab or a literal
\* newline, in a completed row or in an unfinished one.
C17_NoTabOrNewlineInFields ==
    /\ \A r \in DOMAIN out : \A n \in DOMAIN out[r] : Clean(out[r][n])
    /\ \A n \in DOMAIN partial : Clean(partial[n])

\* What holds of C17: the fields of every column but ChangesetTag hold no
\* literal tab and no literal newline.
C17_OtherColumnsAreClean ==
    /\ \A r \in DOMAIN out :
          \A n \in DOMAIN out[r] \ ChangesetTagColumns : Clean(out[r][n])
    /\ \A n \in DOMAIN partial \ ChangesetTagColumns : Clean(partial[n])

====
